---- MODULE Spec2Model ----
(***************************************************************************)
(* Model of the persistence layer of PurBeurre:                            *)
(*   Model/Manager/entity_manager.py  (EntityManager)                      *)
(*   Model/Manager/api_manager.py     (APIManager.clean_response)          *)
(* The database is modelled from the point of view of the one connection   *)
(* the EntityManager holds: five tables and the session variables          *)
(* @id_product, @id_category, @id_store.                                   *)
(***************************************************************************)
EXTENDS Integers, Sequences, FiniteSets, TLC

VARIABLES
    db,        \* the store as seen through EntityManager.db.cursor
    pc,        \* the caller: before its "first" call, before its "second", or "done"
    op,        \* the last call: its name and its arguments
    ret,       \* what the last call returned or raised
    out,       \* what the last call printed ("The error ... occurred")
    nested,    \* insert_all: the nested list 'queries' built by the last call
    batch,     \* insert_all: the statements of the joined 'statement', in order
    executed,  \* insert_all: how many statements of 'batch' the store applied
    before,    \* the five tables as they were when the last call started
    rerun,     \* the last call is insert_all of the payload of the call before it,
               \* and that call before it was an insert_all the store accepted
    records,   \* select_row: what cursor.fetchall() returned
    products   \* APIManager.products

vars == <<db, pc, op, ret, out, nested, batch, executed, before, rerun,
          records, products>>

----------------------------------------------------------------------------
(* Bounds of the model *)

\* number of entities (products, categories, stores) of one payload
MaxEntities == 3
\* length of a raw delimited string handed to create_instance
MaxLen == 5
\* number of raw records of one API page handed to clean_response
MaxPage == 2

----------------------------------------------------------------------------
(* Python values *)

\* Python's None, and SQL's NULL for a column that is not an identifier
None == "None"
\* the value of a session variable never set, and of LAST_INSERT_ID() before any insert
NULL == 0

Range(s) == {s[i] : i \in 1..Len(s)}

RECURSIVE Reverse(_)
\* list.reverse()
Reverse(s) == IF s = <<>> THEN <<>> ELSE Reverse(Tail(s)) \o <<Head(s)>>

RECURSIVE Concat(_)
\* the concatenation of a sequence of sequences
Concat(ss) == IF ss = <<>> THEN <<>> ELSE Head(ss) \o Concat(Tail(ss))

----------------------------------------------------------------------------
(* Entity model: Model/Entity/{product,category,store}.py *)

\* the keys of class_register
Kinds == {"product", "category", "store"}

\* the attributes that hold lists of child entities
ChildKeys == {"category", "store"}

Product(name, nutriscore, url, category, store) ==
    [kind |-> "product", name |-> name, nutriscore |-> nutriscore, url |-> url,
     category |-> category, store |-> store]

Category(name) == [kind |-> "category", name |-> name]

Store(name) == [kind |-> "store", name |-> name]

\* entity.__class__.__name__.lower()
TableName(entity) == entity.kind

\* entity.get_items(): the (attribute, value) pairs of the entity, in order
get_items(entity) ==
    IF entity.kind = "product"
    THEN << <<"name", entity.name>>, <<"nutriscore", entity.nutriscore>>,
            <<"url", entity.url>>, <<"category", entity.category>>,
            <<"store", entity.store>> >>
    ELSE << <<"name", entity.name>> >>

\* the parent argument left at its default
NoParent == [kind |-> "none"]

----------------------------------------------------------------------------
(* Statement Builder: EntityManager.create_query_insert_row *)

\* one element of a Python list of queries: a query string ...
Atom(q) == [isList |-> FALSE, query |-> q]
\* ... or a list nested in it
List(elems) == [isList |-> TRUE, elems |-> elems]

\* the identifier column of an entity table: f"id_{table_name}"
IdCol(table) ==
    CASE table = "product" -> "id_product"
      [] table = "category" -> "id_category"
      [] table = "store" -> "id_store"

\* the association table of a child and its parent: f"{table_name}_{parent_name}"
AssocTable(child, parent) ==
    CASE child = "category" /\ parent = "product" -> "category_product"
      [] child = "store" /\ parent = "product" -> "store_product"

\* INSERT INTO t keys VALUES values ON DUPLICATE KEY UPDATE id_t = LAST_INSERT_ID(id_t)
\* (the statement keeps the columns and the values it names, not their text)
Upsert(table, row_keys, row_values) ==
    [stmt |-> "upsert", table |-> table, keys |-> row_keys, values |-> row_values]

\* SET @id_t = LAST_INSERT_ID()
SetVar(table) == [stmt |-> "set", table |-> table]

\* INSERT IGNORE INTO t_p (id_t, id_p) VALUES (@id_t, @id_p)
Link(table, parent_name) == [stmt |-> "link", table |-> table, parent |-> parent_name]

\* the text of one query: two statements, and a third one when a parent is given
Query(table_name, row_keys, row_values, parent) ==
    <<Upsert(table_name, row_keys, row_values), SetVar(table_name)>>
    \o (IF parent.kind # "none" THEN <<Link(table_name, TableName(parent))>> ELSE <<>>)

\* as Emit, with the entity's own query put before those of its children
EmitOwnFirst(children, query) == <<Atom(query)>> \o children

\* children.append(query); return children
Emit(children, query) == Append(children, Atom(query))

RECURSIVE create_query_insert_row(_, _)
create_query_insert_row(entity, parent) ==
    LET items == get_items(entity)
        \* type(attribute_value) is list: one recursive call per child
        ChildrenOf(item) ==
            IF item[1] \in ChildKeys
            THEN [i \in 1..Len(item[2]) |->
                    List(create_query_insert_row(item[2][i], entity))]
            ELSE <<>>
        children == Concat([i \in 1..Len(items) |-> ChildrenOf(items[i])])
        \* neither None nor a list: a column of the entity's own row
        own == SelectSeq(items, LAMBDA item : item[1] \notin ChildKeys /\ item[2] # None)
        row_keys == [i \in 1..Len(own) |-> own[i][1]]
        row_values == [i \in 1..Len(own) |-> own[i][2]]
    IN  Emit(children, Query(TableName(entity), row_keys, row_values, parent))

RECURSIVE flatten_list(_)
\* the atoms of a nested list, depth first, left to right
flatten_list(listing) ==
    IF listing = <<>> THEN <<>>
    ELSE LET element == Head(listing)
         IN  (IF element.isList THEN flatten_list(element.elems)
              ELSE <<element.query>>) \o flatten_list(Tail(listing))

\* insert_all: the list 'queries', one nested list per instance of the payload
Queries(payload) ==
    IF payload.isList
    THEN [i \in 1..Len(payload.items) |->
            List(create_query_insert_row(payload.items[i], NoParent))]
    ELSE <<List(create_query_insert_row(payload.item, NoParent))>>

\* as Request, without the reversal
RequestUnreversed(queries) == flatten_list(queries)

\* insert_all: request = flatten_list(queries); request.reverse()
Request(queries) == Reverse(flatten_list(queries))

\* insert_all: '; '.join(request), as the sequence of its statements
Statement(request) == Concat(request)

----------------------------------------------------------------------------
(* The store: MySQL, as the statements of the builder use it *)

\* the columns of each table, in the order of SELECT t.*
Columns(table) ==
    CASE table = "product" -> <<"id_product", "name", "nutriscore", "url">>
      [] table = "category" -> <<"id_category", "name">>
      [] table = "store" -> <<"id_store", "name">>
      [] table = "category_product" -> <<"id_category", "id_product">>
      [] table = "store_product" -> <<"id_store", "id_product">>

Tables == {"product", "category", "store", "category_product", "store_product"}

\* the database after its creation: empty tables, a fresh session
EmptyDB ==
    [product |-> <<>>, category |-> <<>>, store |-> <<>>,
     category_product |-> <<>>, store_product |-> <<>>,
     var |-> [k \in Kinds |-> NULL], last_insert_id |-> NULL,
     error |-> FALSE, applied |-> 0]

\* the five tables of a database, without the state of the session
TablesOf(d) == [t \in Tables |-> d[t]]

\* the value a statement gives to a column
ValueOf(s, col) ==
    IF \E i \in 1..Len(s.keys) : s.keys[i] = col
    THEN s.values[CHOOSE i \in 1..Len(s.keys) : s.keys[i] = col]
    ELSE None

\* as ExecUpsert, without the ON DUPLICATE KEY UPDATE clause: a plain INSERT,
\* which the unique key on name rejects
ExecPlainInsert(d, s) ==
    LET t == d[s.table]
        id == Len(t) + 1
        row == [c \in Range(Columns(s.table)) |->
                   IF c = IdCol(s.table) THEN id ELSE ValueOf(s, c)]
    IN  IF \E i \in 1..Len(t) : t[i].name = ValueOf(s, "name")
        THEN [d EXCEPT !.error = TRUE]
        ELSE [d EXCEPT ![s.table] = Append(t, row), !.last_insert_id = id]

\* INSERT ... ON DUPLICATE KEY UPDATE id = LAST_INSERT_ID(id): the unique key is
\* name; no row is ever deleted, so a new row takes the next position as identifier
ExecUpsert(d, s) ==
    LET t == d[s.table]
        dup == {i \in 1..Len(t) : t[i].name = ValueOf(s, "name")}
        id == Len(t) + 1
        row == [c \in Range(Columns(s.table)) |->
                   IF c = IdCol(s.table) THEN id ELSE ValueOf(s, c)]
    IN  IF dup # {}
        THEN [d EXCEPT !.last_insert_id = t[CHOOSE i \in dup : TRUE][IdCol(s.table)]]
        ELSE [d EXCEPT ![s.table] = Append(t, row), !.last_insert_id = id]

\* SET @id_t = LAST_INSERT_ID()
ExecSet(d, s) == [d EXCEPT !.var[s.table] = d.last_insert_id]

\* INSERT IGNORE INTO t_p: a pair already there, or a NULL identifier, is ignored
ExecLink(d, s) ==
    LET a == AssocTable(s.table, s.parent)
        row == [c \in {IdCol(s.table), IdCol(s.parent)} |->
                   IF c = IdCol(s.table) THEN d.var[s.table] ELSE d.var[s.parent]]
    IN  IF row \in Range(d[a]) \/ d.var[s.table] = NULL \/ d.var[s.parent] = NULL
        THEN d
        ELSE [d EXCEPT ![a] = Append(d[a], row)]

ExecStatement(d, s) ==
    CASE s.stmt = "upsert" -> ExecUpsert(d, s)
      [] s.stmt = "set" -> ExecSet(d, s)
      [] s.stmt = "link" -> ExecLink(d, s)

RECURSIVE ExecRest(_, _, _)
\* the statements run one after the other; the store rejects statement number
\* 'fault' (0: none); the first statement rejected raises Error and ends the batch
ExecRest(d, stmts, fault) ==
    IF stmts = <<>> \/ d.error THEN d
    ELSE IF fault = 1 THEN [d EXCEPT !.error = TRUE]
    ELSE LET e == ExecStatement(d, Head(stmts))
         IN  ExecRest(IF e.error THEN e ELSE [e EXCEPT !.applied = d.applied + 1],
                      Tail(stmts), IF fault = 0 THEN 0 ELSE fault - 1)

\* for _ in self.db.cursor.execute(statement, multi=True): continue
ExecBatch(d, stmts, fault) ==
    ExecRest([d EXCEPT !.error = FALSE, !.applied = 0], stmts, fault)

----------------------------------------------------------------------------
(* Entity Factory: EntityManager.create_instance *)

\* a Python str is the sequence of its characters; the characters of the raw strings
Alphabet == {"A", "B", " ", ",", "'"}

RECURSIVE split(_, _)
\* str.split(sep): the pieces between the separators, empty pieces included
split(value, sep) ==
    IF \A i \in 1..Len(value) : value[i] # sep THEN <<value>>
    ELSE LET k == CHOOSE i \in 1..Len(value) :
                      value[i] = sep /\ \A j \in 1..(i - 1) : value[j] # sep
         IN  <<SubSeq(value, 1, k - 1)>> \o split(SubSeq(value, k + 1, Len(value)), sep)

RECURSIVE lstrip(_)
lstrip(val) == IF val # <<>> /\ Head(val) = " " THEN lstrip(Tail(val)) ELSE val

\* as strip, for the leading whitespace only
stripLeft(val) == lstrip(val)

\* str.strip(): without its leading and trailing whitespace
strip(val) == Reverse(lstrip(Reverse(lstrip(val))))

\* Python's None where a call returns an entity or None
NoneValue == [kind |-> "None"]

\* what a call returned, ...
Returned(value) == [raised |-> "no", value |-> value]
\* ... or the exception it raised
Raised(exception) == [raised |-> exception, value |-> NoneValue]

\* class_register[key](name=...), then the two checks on instance.name: the
\* instance is kept (else) or dropped (raise KeyError ... except KeyError: continue)
Keeps(name) == name # <<>> /\ \A i \in 1..Len(name) : name[i] # "'"

\* the loop over value.split(','): the instances of the tokens that are kept
instance_list(key, value) ==
    LET vals == split(value, ",")
        names == [i \in 1..Len(vals) |-> strip(vals[i])]
        kept == SelectSeq(names, Keeps)
    IN  [i \in 1..Len(kept) |-> [kind |-> key, name |-> kept[i]]]

\* the keyword arguments the constructor of each entity accepts
Accepted(entity) ==
    IF entity = "product" THEN {"name", "nutriscore", "url", "category", "store"}
    ELSE {"name"}

\* class_register[entity](**attributes): a keyword the class does not know, or a
\* missing name, is a TypeError; the attributes not given take their defaults
Construct(entity, attributes) ==
    LET given(k, default) == IF k \in DOMAIN attributes THEN attributes[k] ELSE default
    IN  IF ~(DOMAIN attributes \subseteq Accepted(entity)) \/ "name" \notin DOMAIN attributes
        THEN Raised("TypeError")
        ELSE IF entity = "product"
        THEN Returned(Product(attributes.name, given("nutriscore", None),
                              given("url", None), given("category", <<>>),
                              given("store", <<>>)))
        ELSE Returned([kind |-> entity, name |-> attributes.name])

\* create_instance(entity, **attributes); the raw values under the keys of
\* class_register are strs
create_instance(entity, attributes) ==
    Construct(entity,
              [k \in DOMAIN attributes |->
                  IF k \in Kinds THEN instance_list(k, attributes[k]) ELSE attributes[k]])

----------------------------------------------------------------------------
(* Row Reader: EntityManager.select_row *)

\* a clause that **claims does not hold
NoClause == [table_adjunct |-> "none"]

\* 'join' in claims, 'where' in claims
Present(clause) == clause.table_adjunct # "none"

\* headers = [str(head) for head in selection]: the elements of a list, and the
\* characters of a str (the default '*' has one)
Headers(selection) == selection

\* MySQL rejects the SELECT (Error): a column or a table it does not know
Rejects(table_anchor, headers, join, where) ==
    \/ \E i \in 1..Len(headers) :
          headers[i] # "*" /\ headers[i] \notin Range(Columns(table_anchor))
    \/ /\ Present(join)
       /\ \/ join.row_key \notin Range(Columns(join.table_adjunct))
          \/ join.row_key \notin Range(Columns(table_anchor))
    \/ /\ Present(where)
       /\ \/ where.table_adjunct \notin
                 {table_anchor} \cup (IF Present(join) THEN {join.table_adjunct} ELSE {})
          \/ where.row_key \notin Range(Columns(where.table_adjunct))

\* FROM anchor [INNER JOIN adjunct ON adjunct.key = anchor.key]: the rows, as the
\* positions <<row of the anchor, row of the adjunct (0 without a join)>>
Sources(d, table_anchor, join) ==
    IF Present(join)
    THEN {src \in (1..Len(d[table_anchor])) \X (1..Len(d[join.table_adjunct])) :
             d[join.table_adjunct][src[2]][join.row_key]
                 = d[table_anchor][src[1]][join.row_key]}
    ELSE {<<i, 0>> : i \in 1..Len(d[table_anchor])}

\* WHERE adjunct.key = value
Matches(d, table_anchor, join, where) ==
    {src \in Sources(d, table_anchor, join) :
        \/ ~Present(where)
        \/ (IF where.table_adjunct = table_anchor
            THEN d[table_anchor][src[1]]
            ELSE d[where.table_adjunct][src[2]])[where.row_key] = where.row_value}

\* SELECT anchor.h1, anchor.h2, ...: anchor.* stands for every column of the anchor
Project(d, table_anchor, headers, src) ==
    LET row == d[table_anchor][src[1]]
        cols == Columns(table_anchor)
    IN  Concat([i \in 1..Len(headers) |->
                   IF headers[i] = "*" THEN [c \in 1..Len(cols) |-> row[cols[c]]]
                   ELSE <<row[headers[i]]>>])

\* cursor.fetchall(): the rows of the result, in any order the server chooses
\* (no ORDER BY is given); DISTINCT keeps one row of each value
Fetchable(d, table_anchor, headers, distinct, join, where) ==
    LET m == Matches(d, table_anchor, join, where)
        Row(src) == Project(d, table_anchor, headers, src)
        rows == {Row(src) : src \in m}
        Count(r) == IF distinct THEN 1 ELSE Cardinality({src \in m : Row(src) = r})
        n == IF distinct THEN Cardinality(rows) ELSE Cardinality(m)
    IN  {recs \in [1..n -> rows] :
            \A r \in rows : Cardinality({i \in 1..n : recs[i] = r}) = Count(r)}

\* attrs = dict(zip(headers, values)): as long as the shorter; a later pair wins
Attrs(headers, values) ==
    LET n == IF Len(headers) < Len(values) THEN Len(headers) ELSE Len(values)
        Last(k) == CHOOSE i \in 1..n : headers[i] = k /\ \A j \in (i + 1)..n : headers[j] # k
    IN  [k \in {headers[i] : i \in 1..n} |-> values[Last(k)]]

\* as SelectResult, from the last record instead of the first
SelectResultLast(table_anchor, headers, recs) ==
    IF recs = <<>> THEN Returned(NoneValue)
    ELSE create_instance(table_anchor, Attrs(headers, recs[Len(recs)]))

\* for record in records: ... return self.create_instance(table_anchor, **attrs)
\* and, with no record, the end of the method
SelectResult(table_anchor, headers, recs) ==
    IF recs = <<>> THEN Returned(NoneValue)
    ELSE create_instance(table_anchor, Attrs(headers, Head(recs)))

----------------------------------------------------------------------------
(* APIManager.clean_response *)

\* the keys of a raw record that clean_response reads inside its try
Required == {"product_name_fr", "nutriscore_score", "url", "categories", "stores"}

\* attrs = {'name': outline['product_name_fr'], ...}
OutlineAttrs(outline) ==
    [k \in {"name", "nutriscore", "url", "category", "store"} |->
        CASE k = "name" -> outline.product_name_fr
          [] k = "nutriscore" -> outline.nutriscore_score
          [] k = "url" -> outline.url
          [] k = "category" -> outline.categories
          [] k = "store" -> outline.stores]

\* any(v for (k, v) in product.get_items()) == "": any() gives a bool, and in
\* Python neither True nor False equals the str ""
HasEmptyValue(product) == FALSE

RECURSIVE clean_loop(_, _)
\* the loop over request.json()['products'], from the products gathered so far
clean_loop(outlines, gathered) ==
    IF outlines = <<>> THEN [products |-> gathered, ret |-> Returned(NoneValue)]
    ELSE LET outline == Head(outlines)
             made == create_instance("product", OutlineAttrs(outline))
         IN  IF "categories_lc" \notin DOMAIN outline
             \* outline['categories_lc'] is read outside the try
             THEN [products |-> gathered, ret |-> Raised("KeyError")]
             ELSE IF outline.categories_lc # "fr"
             THEN clean_loop(Tail(outlines), gathered)
             ELSE IF ~(Required \subseteq DOMAIN outline)
             \* except KeyError: continue
             THEN clean_loop(Tail(outlines), gathered)
             ELSE IF made.raised # "no"
             THEN [products |-> gathered, ret |-> made]
             ELSE IF HasEmptyValue(made.value)
             THEN clean_loop(Tail(outlines), gathered)
             ELSE clean_loop(Tail(outlines), Append(gathered, made.value))

----------------------------------------------------------------------------
(* The inputs of the calls *)

ProductNames == {"P1", "P2"}
CategoryNames == {"c1", "c2"}
StoreNames == {"s1"}

\* the scalar attributes the catalogue gives each product
NutriscoreOf(name) == IF name = "P1" THEN "3" ELSE None
UrlOf(name) == IF name = "P1" THEN "u1" ELSE "u2"

\* the sequences over S of length n at most
SeqsUpTo(S, n) == UNION {[1..k -> S] : k \in 0..n}

\* the products of n entities at most: the product and its children
ProductsUpTo(n) ==
    {Product(nm, NutriscoreOf(nm), UrlOf(nm), c, s) :
        nm \in ProductNames,
        c \in SeqsUpTo({Category(x) : x \in CategoryNames}, n - 1),
        s \in {t \in SeqsUpTo({Store(x) : x \in StoreNames}, n - 1) : TRUE}}

SizeOf(p) == 1 + Len(p.category) + Len(p.store)

RECURSIVE ProductLists(_)
\* the lists of products of n entities at most
ProductLists(n) ==
    {<<>>} \cup
    UNION {{<<p>> \o rest : rest \in ProductLists(n - SizeOf(p))} :
              p \in {q \in ProductsUpTo(n) : SizeOf(q) <= n}}

\* the payloads of insert_all: a list of products, or a single instance
Payloads ==
    {[isList |-> TRUE, items |-> l] : l \in ProductLists(MaxEntities) \ {<<>>}}
    \cup {[isList |-> FALSE, item |-> e] :
             e \in {q \in ProductsUpTo(MaxEntities) : SizeOf(q) <= MaxEntities}
                   \cup {Category(x) : x \in CategoryNames}
                   \cup {Store(x) : x \in StoreNames}}

\* the column selections of select_row: the default '*' and lists of columns
Selections == {<<"*">>, <<"name">>, <<"name", "nutriscore", "url">>}

\* the names an entity table can hold
NamesOf(table) ==
    CASE table = "product" -> ProductNames
      [] table = "category" -> CategoryNames
      [] table = "store" -> StoreNames

\* the join clauses: none, or the anchor with one of its association tables
Joins(table) ==
    {NoClause} \cup
    (IF table = "product"
     THEN {[table_adjunct |-> AssocTable(k, "product"), row_key |-> "id_product"] :
              k \in ChildKeys}
     ELSE {[table_adjunct |-> AssocTable(table, "product"), row_key |-> IdCol(table)]})

\* the where clauses: none, a name of the anchor, or the other side of the join
Wheres(table, join) ==
    {NoClause}
    \cup {[table_adjunct |-> table, row_key |-> "name", row_value |-> n] :
             n \in NamesOf(table)}
    \cup (IF Present(join)
          THEN {[table_adjunct |-> join.table_adjunct, row_key |-> c, row_value |-> 1] :
                   c \in Range(Columns(join.table_adjunct)) \ {join.row_key}}
          ELSE {})

\* the raw strings of length MaxLen at most
RawStrings == SeqsUpTo(Alphabet, MaxLen)

\* the raw records of the API: complete ones, and the same with one key missing
Outlines ==
    LET full == {[categories_lc |-> lc, product_name_fr |-> nm, nutriscore_score |-> 3,
                  url |-> <<"u">>, categories |-> <<"A", ",", " ", "B">>,
                  stores |-> <<"B">>] :
                    lc \in {"fr", "en"}, nm \in {<<>>, <<"A">>}}
    IN  full \cup {[k \in DOMAIN o \ {gone} |-> o[k]] : o \in full, gone \in Required
                                                          \cup {"categories_lc"}}

\* the pages of raw records
Pages == UNION {[1..k -> Outlines] : k \in 1..MaxPage}

----------------------------------------------------------------------------
(* The calls *)

ErrorMessage == "The error '...' occurred"

\* the caller ingests and then makes a second call, an ingestion or a read; a
\* read changes neither the tables nor the session, so it is the caller's last call
After(position) == IF position = "first" THEN "second" ELSE "done"

\* EntityManager.insert_all(payload); the store rejects statement 'fault' (0: none)
InsertAll(payload, fault) ==
    LET queries == Queries(payload)
        request == Request(queries)
        statement == Statement(request)
        after == ExecBatch(db, statement, fault)
    IN  /\ pc # "done"
        /\ fault <= Len(statement)
        /\ pc' = After(pc)
        /\ db' = after
        /\ op' = [name |-> "insert_all", payload |-> payload]
        \* except Error as e: print(...); the method ends without a return either way
        /\ ret' = Returned(NoneValue)
        /\ out' = IF after.error THEN ErrorMessage ELSE ""
        /\ nested' = queries
        /\ batch' = statement
        /\ executed' = after.applied
        /\ before' = TablesOf(db)
        /\ rerun' = (op.name = "insert_all" /\ op.payload = payload /\ ~db.error)
        /\ records' = <<>>
        /\ UNCHANGED products

\* EntityManager.select_row(table_anchor, selection, distinct, **claims)
SelectRow(table_anchor, selection, distinct, join, where) ==
    LET headers == Headers(selection)
    IN  /\ pc # "done"
        /\ pc' = "done"
        /\ op' = [name |-> "select_row", table_anchor |-> table_anchor,
                  selection |-> selection, distinct |-> distinct,
                  join |-> join, where |-> where]
        /\ IF Rejects(table_anchor, headers, join, where)
           THEN /\ records' = <<>>
                /\ out' = ErrorMessage
                /\ ret' = Returned(NoneValue)
           ELSE /\ records' \in Fetchable(db, table_anchor, headers, distinct, join, where)
                /\ out' = ""
                /\ ret' = SelectResult(table_anchor, headers, records')
        /\ before' = TablesOf(db)
        /\ rerun' = FALSE
        /\ UNCHANGED <<db, nested, batch, executed, products>>

\* EntityManager.create_instance(entity, **attributes), on the arguments op holds
CreateInstance ==
    /\ pc # "done"
    /\ op.name = "create_instance"
    /\ pc' = "done"
    /\ ret' = create_instance(op.entity, op.attributes)
    /\ UNCHANGED <<db, op, out, nested, batch, executed, before, rerun, records, products>>

\* APIManager.clean_response(request), on the page op holds
CleanResponse ==
    LET done == clean_loop(op.page, products)
    IN  /\ pc # "done"
        /\ op.name = "clean_response"
        /\ pc' = "done"
        /\ products' = done.products
        /\ ret' = IF done.ret.raised = "no" THEN Returned(done.products) ELSE done.ret
        /\ UNCHANGED <<db, op, out, nested, batch, executed, before, rerun, records>>

----------------------------------------------------------------------------
(* Specifications *)

\* the databases the program starts on: the one just created, and one that an
\* earlier run of the program has filled
StartingStores ==
    {EmptyDB} \cup
    {ExecBatch(EmptyDB, Statement(Request(Queries(payload))), 0) :
        payload \in {[isList |-> TRUE,
                      items |-> <<Product("P2", NutriscoreOf("P2"), UrlOf("P2"),
                                          <<Category("c2")>>, <<Store("s1")>>)>>]}}

\* after the construction of the managers
Start ==
    /\ db \in StartingStores
    /\ ret = Returned(NoneValue)
    /\ out = ""
    /\ nested = <<>>
    /\ batch = <<>>
    /\ executed = 0
    /\ before = TablesOf(db)
    /\ rerun = FALSE
    /\ records = <<>>
    /\ products = <<>>

Init == Start /\ pc = "first" /\ op = [name |-> "none"]

SelectSome ==
    \E table_anchor \in Kinds, selection \in Selections, distinct \in BOOLEAN :
        \E join \in Joins(table_anchor) :
            \E where \in Wheres(table_anchor, join) :
                SelectRow(table_anchor, selection, distinct, join, where)

\* the store accepts every statement it is sent
Next ==
    \/ \E payload \in Payloads : InsertAll(payload, 0)
    \/ SelectSome

Spec == Init /\ [][Next]_vars

\* the store may reject any one statement of a batch
NextFault ==
    \/ \E payload \in Payloads :
          \E fault \in 0..Len(Statement(Request(Queries(payload)))) :
              InsertAll(payload, fault)
    \/ SelectSome

\* one call on a store that may fail
InitFault == Start /\ pc = "second" /\ op = [name |-> "none"]

SpecFault == InitFault /\ [][NextFault]_vars

\* the calls of the factory and of clean_response, one call on each input
FactoryCalls ==
    {[name |-> "create_instance", entity |-> "product",
      attributes |-> a] :
        a \in {[k \in {"name", key} |-> IF k = "name" THEN <<"A">> ELSE raw] :
                  key \in ChildKeys, raw \in RawStrings}}
    \cup {[name |-> "clean_response", page |-> page] : page \in Pages}

InitFactory == Start /\ db = EmptyDB /\ pc = "second" /\ op \in FactoryCalls

NextFactory == CreateInstance \/ CleanResponse

SpecFactory == InitFactory /\ [][NextFactory]_vars

----------------------------------------------------------------------------
(* Properties *)

\* the instances of a payload, in order
ItemsOf(payload) == IF payload.isList THEN payload.items ELSE <<payload.item>>

\* the children of an instance, in the order of its attributes
ChildrenOfItem(e) == IF e.kind = "product" THEN e.category \o e.store ELSE <<>>

\* no two rows of an entity table share a name, no two rows of an association
\* table share a pair
NoDuplicateRows(d) ==
    \A t \in Tables : \A i, j \in 1..Len(d[t]) :
        (IF t \in Kinds THEN d[t][i].name = d[t][j].name ELSE d[t][i] = d[t][j])
            => i = j

\* C1: insert_all run a second time on the same payload, right after a run the
\* store accepted, leaves the five tables as the first run left them, with no
\* duplicate name and no duplicate pair, and raises no store error.
C1_Idempotent ==
    rerun => /\ TablesOf(db) = before
             /\ NoDuplicateRows(db)
             /\ ~db.error
             /\ out = ""

\* a second run of a payload that fills all five tables
C1_Witness == rerun /\ \A t \in Tables : db[t] # <<>>

\* C2: in the batch insert_all executes, every statement that reads a session
\* variable @id_<table> comes after a statement of the same batch that sets it.
C2_SetBeforeRead ==
    op.name = "insert_all" =>
        \A i \in 1..Len(batch) :
            batch[i].stmt = "link" =>
                \A t \in {batch[i].table, batch[i].parent} :
                    \E j \in 1..(i - 1) : batch[j] = SetVar(t)

\* a batch for a product that owns two categories
C2_Witness ==
    /\ op.name = "insert_all"
    /\ \E e \in Range(ItemsOf(op.payload)) : e.kind = "product" /\ Len(e.category) = 2
    /\ Cardinality({i \in 1..Len(batch) : batch[i] = Link("category", "product")}) >= 2

\* q is the query of entity e built under the given parent: the upsert of e's own
\* row, the capture of its identifier, and its link when it has a parent
IsQueryOf(q, e, parent) ==
    /\ Len(q) = (IF parent.kind = "none" THEN 2 ELSE 3)
    /\ q[1].stmt = "upsert" /\ q[1].table = e.kind /\ ValueOf(q[1], "name") = e.name
    /\ q[2] = SetVar(e.kind)
    /\ parent.kind # "none" => q[3] = Link(e.kind, parent.kind)

\* the <<table, name>> of the entities of a payload: each product after its children
PostOrder(payload) ==
    LET items == ItemsOf(payload)
        Sub(e) == [k \in 1..Len(ChildrenOfItem(e)) |->
                      <<ChildrenOfItem(e)[k].kind, ChildrenOfItem(e)[k].name>>]
                  \o << <<e.kind, e.name>> >>
    IN  Concat([i \in 1..Len(items) |-> Sub(items[i])])

\* the <<table, name>> of the upserts of a batch, in order
UpsertsOf(stmts) ==
    LET ups == SelectSeq(stmts, LAMBDA st : st.stmt = "upsert")
    IN  [i \in 1..Len(ups) |-> <<ups[i].table, ValueOf(ups[i], "name")>>]

\* C9 (as the spec states it): the entity's own fragment is the first element of
\* what create_query_insert_row returns, its children's nested lists come after.
C9_OwnFragmentFirst ==
    op.name = "insert_all" =>
        \A i \in 1..Len(nested) :
            /\ ~nested[i].elems[1].isList
            /\ IsQueryOf(nested[i].elems[1].query, ItemsOf(op.payload)[i], NoParent)

\* C9 (amended): create_query_insert_row returns the nested lists of the entity's
\* children first, in the order of its attributes, and the entity's own fragment
\* (its upsert, with its link when a parent is given) last; flattening is a
\* post-order traversal, and the batch insert_all executes is its reversal.
C9_OwnFragmentLast ==
    op.name = "insert_all" =>
        /\ Len(nested) = Len(ItemsOf(op.payload))
        /\ \A i \in 1..Len(nested) :
              LET e == ItemsOf(op.payload)[i]
                  ch == ChildrenOfItem(e)
                  got == nested[i].elems
              IN  /\ nested[i].isList
                  /\ Len(got) = Len(ch) + 1
                  /\ ~got[Len(got)].isList
                  /\ IsQueryOf(got[Len(got)].query, e, NoParent)
                  /\ \A k \in 1..Len(ch) :
                        /\ got[k].isList
                        /\ Len(got[k].elems) = 1
                        /\ ~got[k].elems[1].isList
                        /\ IsQueryOf(got[k].elems[1].query, ch[k], e)
        /\ UpsertsOf(batch) = Reverse(PostOrder(op.payload))

\* the builder has run on an entity that owns two children at least
C9_Witness ==
    /\ op.name = "insert_all"
    /\ \E i \in 1..Len(nested) : Len(nested[i].elems) >= 3

\* the identifier of the row of a name
IdOf(d, table, name) ==
    d[table][CHOOSE i \in 1..Len(d[table]) : d[table][i].name = name][IdCol(table)]

\* the pairs (child, product) of a payload, for the children under key k
ExpectedLinks(d, payload, k) ==
    {[c \in {IdCol(k), "id_product"} |->
         IF c = "id_product" THEN IdOf(d, "product", pair[1].name)
         ELSE IdOf(d, k, pair[2].name)] :
        pair \in UNION {{<<e, child>> : child \in Range(e[k])} :
                           e \in {x \in Range(ItemsOf(payload)) : x.kind = "product"}}}

\* C10: when the batch executes without error, the association rows it adds are
\* exactly the pairs (child, product) of the payload: every child is linked to its
\* own product, and to no other product.
C10_LinksOwnParent ==
    (op.name = "insert_all" /\ ~db.error) =>
        \A k \in ChildKeys :
            Range(db[AssocTable(k, "product")])
                = Range(before[AssocTable(k, "product")])
                  \cup ExpectedLinks(db, op.payload, k)

\* a batch of two different products, one of which owns a child
C10_Witness ==
    /\ op.name = "insert_all" /\ ~db.error
    /\ \E e, f \in Range(ItemsOf(op.payload)) :
          e.kind = "product" /\ f.kind = "product" /\ e.name # f.name
          /\ ChildrenOfItem(e) # <<>>

C7_WitnessNone ==
    /\ op.name = "select_row" /\ op.selection # <<"*">>
    /\ Present(op.where) /\ db[op.table_anchor] # <<>> /\ records = <<>>

\* C8: reading a stored product back by its name, with the default selection,
\* returns a Product of that name.
C8_RoundTrip ==
    (/\ op.name = "select_row" /\ op.table_anchor = "product"
     /\ op.selection = <<"*">> /\ ~Present(op.join)
     /\ Present(op.where) /\ op.where.row_key = "name"
     /\ \E i \in 1..Len(db.product) : db.product[i].name = op.where.row_value)
        => /\ ret.raised = "no"
           /\ ret.value.kind = "product"
           /\ ret.value.name = op.where.row_value

\* C3: no product with an empty name is appended to APIManager.products.
C3_NoEmptyName == \A i \in 1..Len(products) : products[i].name # <<>>

\* the tokens of a raw string, by position: token number n lies between the
\* (n-1)th and the nth comma
TokenEnds(raw) ==
    LET commas == {i \in 1..Len(raw) : raw[i] = ","}
        cuts == {0, Len(raw) + 1} \cup commas
    IN  {span \in cuts \X cuts :
            span[1] < span[2] /\ \A c \in cuts : ~(span[1] < c /\ c < span[2])}

\* the characters of a token that are not whitespace
Inked(raw, span) == {i \in (span[1] + 1)..(span[2] - 1) : raw[i] # " "}

\* a token that is not empty once trimmed and holds no quote
GoodToken(raw, span) ==
    /\ Inked(raw, span) # {}
    /\ \A i \in (span[1] + 1)..(span[2] - 1) : raw[i] # "'"

\* C4: a raw string under 'category' or 'store' becomes the list of the entities
\* named by its comma-separated tokens, trimmed, in order, without the tokens
\* that are empty or hold a quote; a bad token discards no other token.
C4_Tokens ==
    (op.name = "create_instance" /\ pc = "done") =>
        \A key \in ChildKeys \cap DOMAIN op.attributes :
            LET raw == op.attributes[key]
                good == {span \in TokenEnds(raw) : GoodToken(raw, span)}
                got == ret.value[key]
            IN  /\ ret.raised = "no"
                /\ Len(got) = Cardinality(good)
                /\ \A span \in good :
                      LET n == Cardinality({g \in good : g[1] <= span[1]})
                          ink == Inked(raw, span)
                          lo == CHOOSE i \in ink : \A j \in ink : i <= j
                          hi == CHOOSE i \in ink : \A j \in ink : j <= i
                      IN  got[n] = [kind |-> key, name |-> SubSeq(raw, lo, hi)]

\* a raw string with a token to trim and a token with a quote, and a token kept
C4_Witness ==
    /\ op.name = "create_instance" /\ pc = "done"
    /\ \E key \in ChildKeys \cap DOMAIN op.attributes :
          LET raw == op.attributes[key]
          IN  /\ \E i \in 1..Len(raw) : raw[i] = "'"
              /\ \E i \in 1..(Len(raw) - 1) : raw[i] = "A" /\ raw[i + 1] = " "
              /\ Len(ret.value[key]) >= 1

\* C5: when the store rejects a statement, insert_all raises the error to its caller.
C5_ErrorSurfaced == (op.name = "insert_all" /\ db.error) => ret.raised # "no"

\* C6: when the store rejects a statement, the tables are as they were before the call.
C6_AllOrNothing == (op.name = "insert_all" /\ db.error) => TablesOf(db) = before

====
